---- MODULE Spec2Model ----
(***************************************************************************)
(* A model of release/student.py: photometric stereo, the Gaussian         *)
(* pyramid filters, pinhole projection / unprojection and the NCC patch    *)
(* kernels.                                                                *)
(*                                                                         *)
(* Numbers.  The program computes in floating point; the model computes    *)
(* in exact arithmetic.  A rational is a pair <<n, d>> in lowest terms     *)
(* with d > 0.  A value divided by an L2 norm is kept as a record          *)
(* [q |-> rational, s |-> rational] standing for q / sqrt(s), so that a    *)
(* normalised vector is held exactly.  Arrays are nested sequences,        *)
(* indexed from 1 (row, column, channel).                                  *)
(***************************************************************************)
EXTENDS Integers, Sequences, FiniteSets, TLC

VARIABLES pc, args, ret

vars == <<pc, args, ret>>

None == <<>>

\* a function on 1..n as a sequence (its elements computed once)
AsSeq(f) == f \o <<>>

(***************************************************************************)
(* Exact rational arithmetic (the program's float arithmetic).             *)
(***************************************************************************)
Abs(a) == IF a < 0 THEN -a ELSE a

RECURSIVE GCD(_, _)
GCD(a, b) == IF b = 0 THEN a ELSE GCD(b, a % b)

RNorm(n, d) ==
    LET g == GCD(Abs(n), Abs(d))
        sg == IF d < 0 THEN -1 ELSE 1
    IN  <<sg * (n \div g), sg * (d \div g)>>

Rat(n) == <<n, 1>>

Zero == <<0, 1>>

One == <<1, 1>>

RAdd(a, b) ==
    LET g == GCD(a[2], b[2])
    IN  RNorm(a[1] * (b[2] \div g) + b[1] * (a[2] \div g), (a[2] \div g) * b[2])

RNeg(a) == <<-a[1], a[2]>>

RSub(a, b) == RAdd(a, RNeg(b))

RMul(a, b) ==
    LET g1 == GCD(Abs(a[1]), b[2])
        g2 == GCD(Abs(b[1]), a[2])
    IN  IF a[1] = 0 \/ b[1] = 0 THEN Zero
        ELSE <<(a[1] \div g1) * (b[1] \div g2), (a[2] \div g2) * (b[2] \div g1)>>

RInv(a) == IF a[1] < 0 THEN <<-a[2], -a[1]>> ELSE <<a[2], a[1]>>

RDiv(a, b) == RMul(a, RInv(b))

RLt(a, b) ==
    LET g == GCD(a[2], b[2])
    IN  a[1] * (b[2] \div g) < b[1] * (a[2] \div g)

RGe(a, b) == ~RLt(a, b)

\* the sum of v[lo..hi], by halves
RECURSIVE RSumRange(_, _, _)
RSumRange(v, lo, hi) ==
    IF lo > hi THEN Zero
    ELSE IF lo = hi THEN v[lo]
    ELSE LET mid == (lo + hi) \div 2
         IN  RAdd(RSumRange(v, lo, mid), RSumRange(v, mid + 1, hi))

RSum(v) == RSumRange(v, 1, Len(v))

RDot(u, v) == RSum(AsSeq([i \in 1..Len(u) |-> RMul(u[i], v[i])]))

NormSq(v) == RDot(v, v)

(***************************************************************************)
(* q / sqrt(s): a value divided by an L2 norm whose square is s.           *)
(***************************************************************************)
OverNorm(q, s) == [q |-> q, s |-> s]

SurdIsZero(r) == r.q = Zero

SurdIsOne(r) == r.q[1] > 0 /\ RMul(r.q, r.q) = r.s

SurdMul(a, b) == OverNorm(RMul(a.q, b.q), RMul(a.s, b.s))

\* the sum of values sharing one radicand (those of one pixel's vector)
SurdSum(v) == OverNorm(RSum([i \in 1..Len(v) |-> v[i].q]), v[1].s)

\* the squared L2 norm of a vector of such values
SurdNormSq(v) == RSum(AsSeq([i \in 1..Len(v) |-> RMul(RDiv(v[i].q, v[i].s), v[i].q)]))

(***************************************************************************)
(* Input images.  An image is drawn from a family of periodic patterns:    *)
(* sample (y, x, k) is PixStep * ((a*y + b*x + g*k + o) mod (MaxPix + 1)). *)
(* The family holds constant, striped, checkered and channel-dependent     *)
(* images.                                                                 *)
(***************************************************************************)
MaxDim == 3

MaxC == 2

MaxPix == 2

PixStep == 4

Pattern(h, w, c, a, b, g, o) ==
    [y \in 1..h |-> [x \in 1..w |-> [k \in 1..c |->
        Rat(PixStep * ((a * y + b * x + g * k + o) % (MaxPix + 1)))]]]

Offsets == {0, 1}

Images(h, w, c) ==
    {Pattern(h, w, c, a, b, g, o) : a \in 0..MaxPix, b \in 0..MaxPix,
                                    g \in 0..MaxPix, o \in Offsets}

(***************************************************************************)
(* NCC.  Samples are in units of 1e-7, so the docstring's norm threshold   *)
(* 1e-6 is NccEps = 10 units.                                              *)
(***************************************************************************)
NccEps == 10

\* lines 306-311: the patch of (y, x) lies inside the image
PatchInside(image, ncc_size, y, x) ==
    LET low == -(ncc_size \div 2)
        high == ncc_size \div 2
    IN  /\ y + low >= 1
        /\ x + low >= 1
        /\ y + high <= Len(image)
        /\ x + high <= Len(image[1])

\* a patch that leaves the image keeps the samples that are inside it
PatchVectorPartial(image, ncc_size, y, x) ==
    LET low == -(ncc_size \div 2)
        n2 == ncc_size * ncc_size
        C == Len(image[1][1])
    IN  [i \in 1..(C * n2) |->
            LET k == (i - 1) \div n2
                r == (i - 1) % n2
                yy == y + low + (r \div ncc_size)
                xx == x + low + (r % ncc_size)
            IN  IF yy \in 1..Len(image) /\ xx \in 1..Len(image[1])
                THEN image[yy][xx][k + 1]
                ELSE Zero]

\* lines 299-320: the flattened patch, channel blocks of row-major samples;
\* zero where the patch leaves the image
PatchVector(image, ncc_size, y, x) ==
    LET low == -(ncc_size \div 2)
        n2 == ncc_size * ncc_size
        C == Len(image[1][1])
    IN  [i \in 1..(C * n2) |->
            IF PatchInside(image, ncc_size, y, x)
            THEN LET k == (i - 1) \div n2
                     r == (i - 1) % n2
                 IN  image[y + low + (r \div ncc_size)][x + low + (r % ncc_size)][k + 1]
            ELSE Zero]

\* line 322: subtract the mean taken over the whole vector
MeanSubtract(v) ==
    LET mean == RDiv(RSum(v), Rat(Len(v)))
    IN  [i \in 1..Len(v) |-> RSub(v[i], mean)]

\* lines 324-326: divide by the L2 norm, a norm of exactly 0 replaced by 1
Normalize(v) ==
    LET nsq == NormSq(v)
        rad == IF nsq = Zero THEN One ELSE nsq
    IN  [i \in 1..Len(v) |-> OverNorm(v[i], rad)]

preprocess_ncc_impl(image, ncc_size) ==
    [y \in 1..Len(image) |-> [x \in 1..Len(image[1]) |->
        Normalize(MeanSubtract(PatchVector(image, ncc_size, y, x)))]]

\* the sum stops one feature short
compute_ncc_implShort(image1, image2) ==
    [y \in 1..Len(image1) |-> [x \in 1..Len(image1[1]) |->
        OverNorm(RSum([i \in 1..(Len(image1[y][x]) - 1) |->
                          RMul(image1[y][x][i].q, image2[y][x][i].q)]),
                 RMul(image1[y][x][1].s, image2[y][x][1].s))]]

\* line 344: the per-pixel sum of products over the feature axis
compute_ncc_impl(image1, image2) ==
    [y \in 1..Len(image1) |-> [x \in 1..Len(image1[1]) |->
        SurdSum([i \in 1..Len(image1[y][x]) |->
                    SurdMul(image1[y][x][i], image2[y][x][i])])]]

MaxNcc == 3

NccSizes == {n \in 1..MaxNcc : n % 2 = 1}

SecondParams == {<<0, 0>>, <<0, 1>>, <<1, 0>>, <<1, 1>>}

InitNcc ==
    /\ pc = "ncc_start"
    /\ \E h \in 1..MaxDim, w \in 1..MaxDim, c \in 1..MaxC, n \in NccSizes :
       \E im1 \in Images(h, w, c), p \in SecondParams :
          args = [image1 |-> im1,
                  image2 |-> Pattern(h, w, c, p[1], p[2], 1, 0),
                  ncc_size |-> n]
    /\ ret = None

\* preprocess_ncc is called on every input image ...
PreprocessNcc ==
    /\ pc = "ncc_start"
    /\ ret' = [features1 |-> preprocess_ncc_impl(args.image1, args.ncc_size),
               features2 |-> preprocess_ncc_impl(args.image2, args.ncc_size)]
    /\ pc' = "ncc_preprocessed"
    /\ UNCHANGED args

\* ... and then compute_ncc on the two feature arrays, and on the first with itself
ComputeNcc ==
    /\ pc = "ncc_preprocessed"
    /\ ret' = [features1 |-> ret.features1,
               features2 |-> ret.features2,
               ncc |-> compute_ncc_impl(ret.features1, ret.features2),
               ncc_self |-> compute_ncc_impl(ret.features1, ret.features1)]
    /\ pc' = "ncc_done"
    /\ UNCHANGED args

NextNcc == PreprocessNcc \/ ComputeNcc

SpecNcc == InitNcc /\ [][NextNcc]_vars

IsZeroVec(v) == \A i \in 1..Len(v) : SurdIsZero(v[i])

NccPixels == {<<y, x>> : y \in 1..Len(args.image1), x \in 1..Len(args.image1[1])}

NccReturned == pc \in {"ncc_preprocessed", "ncc_done"}

(***************************************************************************)
(* Pyramid filters.  An ndarray is [ndim |-> 2 or 3, a |-> nested          *)
(* sequences]: a[y][x] is a sample when ndim = 2 and a sequence of channel *)
(* samples when ndim = 3.                                                  *)
(***************************************************************************)
Array3(a) == [ndim |-> 3, a |-> a]

Array2(a) == [ndim |-> 2, a |-> a]

Rows(A) == Len(A.a)

Cols(A) == Len(A.a[1])

Chans(A) == IF A.ndim = 3 THEN Len(A.a[1][1]) ELSE 1

\* A[y, x, k] with 0-based y, x, k as in the code
At(A, y, x, k) == IF A.ndim = 3 THEN A.a[y + 1][x + 1][k + 1] ELSE A.a[y + 1][x + 1]

\* cv2.BORDER_REFLECT_101 (cv2.borderInterpolate): reflect about the edge
\* sample, without repeating it, until the index is inside 0..len-1
RECURSIVE borderInterpolate(_, _)
borderInterpolate(p, len) ==
    IF len = 1 THEN 0
    ELSE IF p >= 0 /\ p < len THEN p
    ELSE IF p < 0 THEN borderInterpolate(-p, len)
    ELSE borderInterpolate(2 * len - 2 - p, len)

\* cv2.filter2D(src, -1, kernel, borderType=BORDER_REFLECT_101): correlation
\* with the kernel anchored at its centre; a one-channel result is returned
\* without its channel axis
filter2D(src, kernel) ==
    LET H == Rows(src)
        W == Cols(src)
        kr == Len(kernel)
        kc == Len(kernel[1])
        taps == {<<i, j>> : i \in 0..(kr - 1), j \in 0..(kc - 1)}
        tapSeq == [n \in 1..(kr * kc) |-> <<(n - 1) \div kc, (n - 1) % kc>>]
        val(y, x, k) ==
            RSum([n \in 1..(kr * kc) |->
                RMul(kernel[tapSeq[n][1] + 1][tapSeq[n][2] + 1],
                     At(src, borderInterpolate(y + tapSeq[n][1] - (kr \div 2), H),
                             borderInterpolate(x + tapSeq[n][2] - (kc \div 2), W), k))])
    IN  IF Chans(src) > 1
        THEN Array3([y \in 1..H |-> [x \in 1..W |-> [k \in 1..Chans(src) |->
                        val(y - 1, x - 1, k - 1)]]])
        ELSE Array2([y \in 1..H |-> [x \in 1..W |-> val(y - 1, x - 1, 0)]])

Taps == <<1, 4, 6, 4, 1>>

\* K[:, np.newaxis]: the 5 x 1 column kernel
ColumnKernel(K) == [i \in 1..Len(K) |-> <<K[i]>>]

\* K[:, np.newaxis].transpose(): the 1 x 5 row kernel
RowKernel(K) == <<K>>

\* line 94
PyrDownKernel == [i \in 1..5 |-> RNorm(Taps[i], 16)]

\* line 143
PyrUpKernelHalved == [i \in 1..5 |-> RNorm(Taps[i], 16)]

PyrUpKernel == [i \in 1..5 |-> RNorm(Taps[i], 8)]

\* A[::2, ::2]
EvenSamples(A) ==
    [ndim |-> A.ndim,
     a |-> [y \in 1..((Rows(A) + 1) \div 2) |-> [x \in 1..((Cols(A) + 1) \div 2) |->
                A.a[2 * y - 1][2 * x - 1]]]]

\* A[..., np.newaxis] on a 2-D array
NewAxis(A) == Array3([y \in 1..Rows(A) |-> [x \in 1..Cols(A) |-> <<A.a[y][x]>>]])

\* the channel axis cv2 dropped is not added back
pyrdown_implNoAxis(image) ==
    EvenSamples(filter2D(filter2D(image, ColumnKernel(PyrDownKernel)),
                         RowKernel(PyrDownKernel)))

\* lines 94-106
pyrdown_impl(image) ==
    LET img_filt == filter2D(filter2D(image, ColumnKernel(PyrDownKernel)),
                            RowKernel(PyrDownKernel))
        down == EvenSamples(img_filt)
    IN  IF down.ndim = 2 THEN NewAxis(down) ELSE down

\* lines 132-153
pyrup_impl(image) ==
    LET H == Rows(image)
        W == Cols(image)
        C == IF image.ndim = 2 THEN 1 ELSE Chans(image)
        new_img == Array3([y \in 1..(2 * H) |-> [x \in 1..(2 * W) |-> [k \in 1..C |->
                      IF y % 2 = 1 /\ x % 2 = 1
                      THEN At(image, (y - 1) \div 2, (x - 1) \div 2, k - 1)
                      ELSE Zero]]])
        img_filt == filter2D(filter2D(new_img, ColumnKernel(PyrUpKernel)),
                            RowKernel(PyrUpKernel))
    IN  IF img_filt.ndim = 2 THEN NewAxis(img_filt) ELSE img_filt

InitPyr ==
    /\ pc = "pyr_start"
    /\ \E h \in 1..MaxDim, w \in 1..MaxDim, c \in 1..MaxC :
       \E im \in Images(h, w, c) : args = [image |-> Array3(im)]
    /\ ret = None

PyrDown ==
    /\ pc = "pyr_start"
    /\ ret' = pyrdown_impl(args.image)
    /\ pc' = "pyr_down"
    /\ UNCHANGED args

PyrUp ==
    /\ pc = "pyr_start"
    /\ ret' = pyrup_impl(args.image)
    /\ pc' = "pyr_up"
    /\ UNCHANGED args

NextPyr == PyrDown \/ PyrUp

SpecPyr == InitPyr /\ [][NextPyr]_vars

(***************************************************************************)
(* Camera projection.  A matrix is a sequence of rows of rationals.        *)
(***************************************************************************)
MatVec(M, v) == AsSeq([i \in 1..Len(M) |-> RDot(M[i], v)])

Transpose(M) == AsSeq([j \in 1..Len(M[1]) |-> AsSeq([i \in 1..Len(M) |-> M[i][j]])])

MatMul(A, B) == AsSeq([i \in 1..Len(A) |-> MatVec(Transpose(B), A[i])])

Det2(a, b, c, d) == RSub(RMul(a, d), RMul(b, c))

Det3(M) ==
    RAdd(RSub(RMul(M[1][1], Det2(M[2][2], M[2][3], M[3][2], M[3][3])),
              RMul(M[1][2], Det2(M[2][1], M[2][3], M[3][1], M[3][3]))),
         RMul(M[1][3], Det2(M[2][1], M[2][2], M[3][1], M[3][2])))

\* np.linalg.inv of a 3 x 3 matrix, the adjugate over the determinant; a
\* singular matrix raises LinAlgError
Inv3(M) ==
    LET nx(i) == (i % 3) + 1
        cof(i, j) == Det2(M[nx(i)][nx(j)], M[nx(i)][nx(nx(j))],
                          M[nx(nx(i))][nx(j)], M[nx(nx(i))][nx(nx(j))])
        det == Det3(M)
    IN  IF det = Zero THEN "LinAlgError"
        ELSE AsSeq([i \in 1..3 |-> AsSeq([j \in 1..3 |-> RDiv(cof(j, i), det)])])

\* the threshold 1e-7 of line 175
ProjEps == RNorm(1, 10000000)

\* the test is location[2] > 0
project_implPositive(K, Rt, points) ==
    [i \in 1..Len(points) |-> [j \in 1..Len(points[1]) |->
        LET location == MatVec(K, MatVec(Rt, points[i][j] \o <<One>>))
        IN  IF RLt(Zero, location[3])
            THEN <<RDiv(location[1], location[3]), RDiv(location[2], location[3])>>
            ELSE <<Zero, Zero>>]]

\* lines 168-178
project_impl(K, Rt, points) ==
    [i \in 1..Len(points) |-> [j \in 1..Len(points[1]) |->
        LET location == MatVec(K, MatVec(Rt, points[i][j] \o <<One>>))
        IN  IF RGe(location[3], ProjEps)
            THEN <<RDiv(location[1], location[3]), RDiv(location[2], location[3])>>
            ELSE <<Zero, Zero>>]]

\* Rt[:3, :3]
RotationOf(Rt) == [i \in 1..3 |-> SubSeq(Rt[i], 1, 3)]

\* Rt[:3, 3]
TranslationOf(Rt) == [i \in 1..3 |-> Rt[i][4]]

VecSub(u, v) == AsSeq([i \in 1..Len(u) |-> RSub(u[i], v[i])])

VecScale(u, a) == AsSeq([i \in 1..Len(u) |-> RMul(u[i], a)])

\* the corner grid is laid out with rows indexing x
unproject_corners_implTransposed(K, width, height, depth, Rt) ==
    LET corners == <<<<<<Zero, Zero, One>>, <<Zero, Rat(height), One>>>>,
                     <<<<Rat(width), Zero, One>>, <<Rat(width), Rat(height), One>>>>>>
        R == RotationOf(Rt)
        t == TranslationOf(Rt)
    IN  [r \in 1..2 |-> [c \in 1..2 |->
            VecSub(MatVec(Transpose(R), VecScale(MatVec(Inv3(K), corners[r][c]), depth)),
                   MatVec(Transpose(R), t))]]

\* the rotation is applied instead of its transpose
unproject_corners_implNoTranspose(K, width, height, depth, Rt) ==
    LET corners == <<<<<<Zero, Zero, One>>, <<Rat(width), Zero, One>>>>,
                     <<<<Zero, Rat(height), One>>, <<Rat(width), Rat(height), One>>>>>>
        R == RotationOf(Rt)
        t == TranslationOf(Rt)
    IN  [r \in 1..2 |-> [c \in 1..2 |->
            VecSub(MatVec(R, VecScale(MatVec(Inv3(K), corners[r][c]), depth)),
                   MatVec(Transpose(R), t))]]

\* lines 226-248.  tensordot(corners, inv(K).T) is inv(K) applied to each
\* corner; tensordot(corners, R) is R^T applied to each corner
unproject_corners_impl(K, width, height, depth, Rt) ==
    LET corners == <<<<<<Zero, Zero, One>>, <<Rat(width), Zero, One>>>>,
                     <<<<Zero, Rat(height), One>>, <<Rat(width), Rat(height), One>>>>>>
        R == RotationOf(Rt)
        t == TranslationOf(Rt)
    IN  [r \in 1..2 |-> [c \in 1..2 |->
            VecSub(MatVec(Transpose(R), VecScale(MatVec(Inv3(K), corners[r][c]), depth)),
                   MatVec(Transpose(R), t))]]

IntMatrix(M) == AsSeq([i \in 1..Len(M) |-> AsSeq([j \in 1..Len(M[i]) |-> Rat(M[i][j])])])

Identity3 == IntMatrix(<<<<1, 0, 0>>, <<0, 1, 0>>, <<0, 0, 1>>>>)

\* intrinsics: identity, focal length and principal point, skew, and two
\* matrices whose last row is not (0, 0, 1)
Intrinsics ==
    {Identity3,
     IntMatrix(<<<<2, 0, 1>>, <<0, 3, 1>>, <<0, 0, 1>>>>),
     IntMatrix(<<<<1, 1, 0>>, <<0, 1, 0>>, <<0, 0, 1>>>>),
     IntMatrix(<<<<2, 0, 0>>, <<0, 2, 0>>, <<0, 0, 2>>>>),
     IntMatrix(<<<<1, 0, 0>>, <<0, 1, 0>>, <<0, 0, -1>>>>)}

\* rotations (identity, a quarter turn about z, a 3-4-5 turn about x) and a
\* matrix that is not orthonormal
Rotations ==
    {Identity3,
     IntMatrix(<<<<0, -1, 0>>, <<1, 0, 0>>, <<0, 0, 1>>>>),
     <<<<One, Zero, Zero>>, <<Zero, RNorm(3, 5), RNorm(-4, 5)>>,
       <<Zero, RNorm(4, 5), RNorm(3, 5)>>>>,
     IntMatrix(<<<<2, 0, 0>>, <<0, 1, 0>>, <<0, 0, 1>>>>)}

Translations == {<<Zero, Zero, Zero>>, <<One, Rat(2), Rat(3)>>, <<Rat(-1), Zero, RNorm(1, 2)>>}

Extrinsics == {[i \in 1..3 |-> R[i] \o <<t[i]>>] : R \in Rotations, t \in Translations}

\* depths and coordinates around the threshold 1e-7
Depths == {Zero, RNorm(1, 20000000), ProjEps, One, Rat(2), Rat(-1)}

Points ==
    {<<Zero, Zero, One>>, <<One, Rat(2), Rat(2)>>, <<One, One, Zero>>,
     <<One, One, RNorm(3, 40000000)>>, <<Zero, One, Rat(-1)>>, <<Rat(2), One, ProjEps>>}

MaxGrid == 2

MaxSide == 2

IsIntegral(v) == \A i \in 1..Len(v) : v[i][2] = 1

\* The model's integers are 32 bits wide: a rotation with fractional entries
\* is combined with integral coordinates only, so that no numerator overflows.
Exact(Rt, v) == IsIntegral(v) \/ \A i \in 1..3 : IsIntegral(RotationOf(Rt)[i])

InitCam ==
    /\ \E K \in Intrinsics, Rt \in Extrinsics :
        \/ /\ pc = "cam_points"
           /\ \E h \in 1..MaxGrid, w \in 1..MaxGrid, p \in Points, q \in Points :
                /\ Exact(Rt, p)
                /\ Exact(Rt, q)
                /\ args = [K |-> K, Rt |-> Rt,
                           points |-> [i \in 1..h |-> [j \in 1..w |->
                                           IF (i + j) % 2 = 0 THEN p ELSE q]]]
        \/ /\ pc = "cam_corners"
           /\ \E width \in 1..MaxSide, height \in 1..MaxSide, depth \in Depths :
                /\ Exact(Rt, <<depth>>)
                /\ args = [K |-> K, Rt |-> Rt, width |-> width, height |-> height,
                           depth |-> depth]
    /\ ret = None

Project ==
    /\ pc = "cam_points"
    /\ ret' = [proj |-> project_impl(args.K, args.Rt, args.points)]
    /\ pc' = "cam_projected"
    /\ UNCHANGED args

UnprojectCorners ==
    /\ pc = "cam_corners"
    /\ ret' = [corners |-> unproject_corners_impl(args.K, args.width, args.height,
                                                  args.depth, args.Rt)]
    /\ pc' = "cam_unprojected"
    /\ UNCHANGED args

\* the unprojected corners are projected back
ProjectCorners ==
    /\ pc = "cam_unprojected"
    /\ ret' = [corners |-> ret.corners,
               proj |-> project_impl(args.K, args.Rt, ret.corners)]
    /\ pc' = "cam_reprojected"
    /\ UNCHANGED args

NextCam == Project \/ UnprojectCorners \/ ProjectCorners

SpecCam == InitCam /\ [][NextCam]_vars

(***************************************************************************)
(* Photometric stereo.  Samples are in units of 1e-8, so the value 1e-7 of *)
(* lines 43 and 59 is 10 units.  lights is a sequence of three rows of N   *)
(* entries; images is a sequence of N images.                              *)
(***************************************************************************)
KdFloor == 10

AlbedoEps == 10

\* line 39-40: inv(lights . lights^T)
LightsInverse(lights) == Inv3(MatMul(lights, Transpose(lights)))

\* lines 36-40: G at one pixel, I . lights^T . inv(lights . lights^T), with
\* I the first channel of the pixel in every image
Gradient(Minv, lights, pixels) ==
    MatVec(Transpose(Minv),
           MatVec(lights, AsSeq([i \in 1..Len(pixels) |-> pixels[i][1]])))

\* lines 45, 60, 61: a vector set to 0
ZeroLike(v) == AsSeq([i \in 1..Len(v) |-> OverNorm(Zero, One)])

\* lines 42-43: the squared divisor kd^2, a norm of exactly 0 replaced by 1e-7
KdSquared(G) == IF NormSq(G) = Zero THEN Rat(KdFloor * KdFloor) ELSE NormSq(G)

\* lines 42-45: G / kd; after line 43 no kd is 0, so line 45 changes nothing
NormalsOf(G) ==
    LET kd2 == KdSquared(G)
    IN  IF kd2 = Zero THEN ZeroLike(G)
        ELSE AsSeq([i \in 1..3 |-> OverNorm(G[i], kd2)])

\* lines 47-57: per channel num / den with den = 0 replaced by 1; np.divide
\* leaves a sample whose den is not > 0 unwritten (none is, den being a sum
\* of squares with its zeros replaced)
AlbedoOf(G, lights, pixels) ==
    LET n == Len(pixels)
        Lt == Transpose(lights)
        kd2 == KdSquared(G)
        ndotl == AsSeq([j \in 1..n |-> RDot(G, Lt[j])])
        den0 == RDiv(NormSq(ndotl), kd2)
        den == IF den0 = Zero THEN One ELSE den0
    IN  IF RLt(Zero, den)
        THEN AsSeq([c \in 1..Len(pixels[1]) |->
                OverNorm(RDiv(RSum(AsSeq([j \in 1..n |-> RMul(ndotl[j], pixels[j][c])])),
                              den), kd2)])
        ELSE "unwritten"

\* pixel (y, x) of every image
PixelsAt(images, y, x) == AsSeq([j \in 1..Len(images) |-> images[j][y][x]])

NormalsUnmasked(lights, images, y, x) ==
    NormalsOf(Gradient(LightsInverse(lights), lights, PixelsAt(images, y, x)))

AlbedoUnmasked(lights, images, y, x) ==
    AlbedoOf(Gradient(LightsInverse(lights), lights, PixelsAt(images, y, x)),
             lights, PixelsAt(images, y, x))

\* line 59
Masked(albedo) == RLt(SurdNormSq(albedo), Rat(AlbedoEps * AlbedoEps))

\* the mask is applied to the albedo alone
compute_photometric_stereo_implAlbedoOnly(lights, images) ==
    [y \in 1..Len(images[1]) |-> [x \in 1..Len(images[1][1]) |->
        LET albedo == AlbedoUnmasked(lights, images, y, x)
            normals == NormalsUnmasked(lights, images, y, x)
        IN  IF Masked(albedo)
            THEN [albedo |-> ZeroLike(albedo), normals |-> normals]
            ELSE [albedo |-> albedo, normals |-> normals]]]

\* lines 33-63; the result holds, per pixel, the albedo and the normal
compute_photometric_stereo_impl(lights, images) ==
    LET Minv == LightsInverse(lights)
    IN  IF Minv = "LinAlgError" THEN Minv
        ELSE AsSeq([y \in 1..Len(images[1]) |-> AsSeq([x \in 1..Len(images[1][1]) |->
                LET G == Gradient(Minv, lights, PixelsAt(images, y, x))
                    normals == NormalsOf(G)
                    albedo == AlbedoOf(G, lights, PixelsAt(images, y, x))
                IN  IF Masked(albedo)
                    THEN [albedo |-> ZeroLike(albedo), normals |-> ZeroLike(normals)]
                    ELSE [albedo |-> albedo, normals |-> normals]])])

\* light sets with an invertible lights . lights^T: the three axes; the axes
\* and the reversed z axis; the axes and the unit direction (3/5, 4/5, 0)
LightSets ==
    {IntMatrix(<<<<1, 0, 0>>, <<0, 1, 0>>, <<0, 0, 1>>>>),
     IntMatrix(<<<<1, 0, 0, 0>>, <<0, 1, 0, 0>>, <<0, 0, 1, -1>>>>),
     <<<<One, Zero, Zero, RNorm(3, 5)>>, <<Zero, One, Zero, RNorm(4, 5)>>,
       <<Zero, Zero, One, Zero>>>>}

\* sample levels 0, 6e-8 and 1.2e-7, either side of the threshold
Levels == <<0, 6, 12>>

\* image j of a scene: a periodic pattern of the levels that shifts with j
SceneImage(h, w, c, a, b, g, o, j) ==
    [y \in 1..h |-> [x \in 1..w |-> [k \in 1..c |->
        Rat(Levels[((a * y + b * x + g * k + o * j) % Len(Levels)) + 1])]]]

InitPS ==
    /\ pc = "ps_start"
    /\ \E lights \in LightSets, h \in 1..MaxGrid, w \in 1..MaxGrid, c \in 1..MaxC :
       \E a \in 0..2, b \in 0..2, g \in 0..2, o \in 0..2 :
          args = [lights |-> lights,
                  images |-> [j \in 1..Len(lights[1]) |->
                                 SceneImage(h, w, c, a, b, g, o, j)]]
    /\ ret = None

ComputePhotometricStereo ==
    /\ pc = "ps_start"
    /\ ret' = compute_photometric_stereo_impl(args.lights, args.images)
    /\ pc' = "ps_done"
    /\ UNCHANGED args

NextPS == ComputePhotometricStereo

SpecPS == InitPS /\ [][NextPS]_vars

(***************************************************************************)
(* Claims on the NCC kernels.                                              *)
(***************************************************************************)
\* the claim's own statement of "the window centred on (y, x) extends past
\* an image boundary"
WindowLeavesImage(y, x) ==
    LET half == args.ncc_size \div 2
    IN  \/ y - half < 1
        \/ x - half < 1
        \/ y + half > Len(args.image1)
        \/ x + half > Len(args.image1[1])

FeatureLen == Len(args.image1[1][1]) * args.ncc_size * args.ncc_size

\* C1: at every pixel whose patch lies inside the image the output is a unit
\* vector or the zero vector, and it is the zero vector whenever the norm of
\* the mean-subtracted patch is below 1e-6
C1_SmallNormIsZeroed ==
    NccReturned =>
        \A p \in NccPixels :
            ~WindowLeavesImage(p[1], p[2]) =>
                LET out == ret.features1[p[1]][p[2]]
                    pre == MeanSubtract(PatchVector(args.image1, args.ncc_size, p[1], p[2]))
                IN  /\ SurdNormSq(out) = One \/ IsZeroVec(out)
                    /\ RLt(NormSq(pre), Rat(NccEps * NccEps)) => IsZeroVec(out)

\* C4: at every pixel whose window leaves the image the output vector has
\* C * ncc_size^2 components, all exactly zero
C4_BorderIsZero ==
    NccReturned =>
        \A p \in NccPixels :
            WindowLeavesImage(p[1], p[2]) =>
                /\ Len(ret.features1[p[1]][p[2]]) = FeatureLen
                /\ IsZeroVec(ret.features1[p[1]][p[2]])

\* a border pixel with non-zero samples around it is zeroed while an
\* interior pixel of the same image is not
C4_Witness ==
    /\ pc = "ncc_preprocessed"
    /\ args.ncc_size = 3
    /\ Len(args.image1) = 3
    /\ Len(args.image1[1]) = 3
    /\ args.image1[1][1][1] # Zero
    /\ WindowLeavesImage(1, 1)
    /\ IsZeroVec(ret.features1[1][1])
    /\ ~IsZeroVec(ret.features1[2][2])

\* C7: a 2 x 2 image with ncc_size = 1 gives an output that is zero at every
\* pixel and component, whatever the channel count and the samples
C7_Size1IsAllZero ==
    (/\ NccReturned
     /\ args.ncc_size = 1
     /\ Len(args.image1) = 2
     /\ Len(args.image1[1]) = 2) =>
        \A p \in NccPixels : IsZeroVec(ret.features1[p[1]][p[2]])

\* C8: compute_ncc(f, f) is 1 where f is non-zero and 0 where f is zero, and
\* compute_ncc(f1, f2) is 0 wherever f1 or f2 is the zero vector
C8_SelfCorrelation ==
    pc = "ncc_done" =>
        \A p \in NccPixels :
            LET f1 == ret.features1[p[1]][p[2]]
                f2 == ret.features2[p[1]][p[2]]
            IN  /\ IsZeroVec(f1) => SurdIsZero(ret.ncc_self[p[1]][p[2]])
                /\ ~IsZeroVec(f1) => SurdIsOne(ret.ncc_self[p[1]][p[2]])
                /\ (IsZeroVec(f1) \/ IsZeroVec(f2)) => SurdIsZero(ret.ncc[p[1]][p[2]])

\* one image has a non-zero and a zero feature vector, and a pixel where the
\* first image's vector is non-zero and the second's is zero
C8_Witness ==
    /\ pc = "ncc_done"
    /\ \E p \in NccPixels : /\ ~IsZeroVec(ret.features1[p[1]][p[2]])
                            /\ SurdIsOne(ret.ncc_self[p[1]][p[2]])
    /\ \E p \in NccPixels : /\ IsZeroVec(ret.features1[p[1]][p[2]])
                            /\ SurdIsZero(ret.ncc_self[p[1]][p[2]])
    /\ \E p \in NccPixels : /\ ~IsZeroVec(ret.features1[p[1]][p[2]])
                            /\ IsZeroVec(ret.features2[p[1]][p[2]])
                            /\ SurdIsZero(ret.ncc[p[1]][p[2]])

(***************************************************************************)
(* Claims on the pyramid filters.                                          *)
(***************************************************************************)
\* mirror indexing in closed form: ... c b | a b c d | c b ...
Mirror(p, len) ==
    IF len = 1 THEN 0
    ELSE LET m == p % (2 * (len - 1))
         IN  IF m < len THEN m ELSE 2 * (len - 1) - m

\* the image filtered by [1,4,6,4,1]/16 along both axes, as one double sum,
\* at 0-based (y, x, k)
Blurred(y, x, k) ==
    RSum([n \in 1..25 |->
        LET dy == ((n - 1) \div 5) - 2
            dx == ((n - 1) % 5) - 2
        IN  RMul(RNorm(Taps[dy + 3] * Taps[dx + 3], 256),
                 args.image.a[Mirror(y + dy, Rows(args.image)) + 1]
                             [Mirror(x + dx, Cols(args.image)) + 1][k + 1])])

CeilHalf(n) == (n + 1) \div 2

\* C5: pyrdown returns ceil(H/2) x ceil(W/2) x C, channel axis included, and
\* its sample [i, j, c] is the blurred image at [2i, 2j, c]
C5_PyrDownShapeAndSamples ==
    pc = "pyr_down" =>
        /\ ret.ndim = 3
        /\ Len(ret.a) = CeilHalf(Rows(args.image))
        /\ \A i \in 1..Len(ret.a) :
            /\ Len(ret.a[i]) = CeilHalf(Cols(args.image))
            /\ \A j \in 1..Len(ret.a[i]) :
                /\ Len(ret.a[i][j]) = Chans(args.image)
                /\ \A c \in 1..Len(ret.a[i][j]) :
                     ret.a[i][j][c] = Blurred(2 * (i - 1), 2 * (j - 1), c - 1)

\* an odd-sized one-channel image that is not constant has been downsampled
C5_Witness ==
    /\ pc = "pyr_down"
    /\ Rows(args.image) = 3
    /\ Cols(args.image) = 2
    /\ Chans(args.image) = 1
    /\ args.image.a[1][1][1] # args.image.a[2][1][1]
    /\ Len(ret.a) = 2
    /\ Len(ret.a[1]) = 1
    /\ ret.a[1][1][1] # args.image.a[1][1][1]

IsConstant(A, v) ==
    \A y \in 1..Rows(A), x \in 1..Cols(A), k \in 1..Chans(A) : A.a[y][x][k] = v

\* C9: pyrup of an image whose samples all equal v is 2H x 2W x C with every
\* sample equal to v
C9_PyrUpKeepsConstants ==
    (pc = "pyr_up" /\ IsConstant(args.image, args.image.a[1][1][1])) =>
        /\ ret.ndim = 3
        /\ Rows(ret) = 2 * Rows(args.image)
        /\ Cols(ret) = 2 * Cols(args.image)
        /\ Chans(ret) = Chans(args.image)
        /\ IsConstant(ret, args.image.a[1][1][1])

\* a constant non-zero image taller than wide has been upsampled
C9_Witness ==
    /\ pc = "pyr_up"
    /\ args.image.a[1][1][1] # Zero
    /\ IsConstant(args.image, args.image.a[1][1][1])
    /\ Rows(args.image) = 2
    /\ Cols(args.image) = 1
    /\ Rows(ret) = 4
    /\ ret.a[4][2][1] = args.image.a[1][1][1]

(***************************************************************************)
(* Claims on the camera functions.                                         *)
(***************************************************************************)
GridCells == {<<i, j>> : i \in 1..Len(args.points), j \in 1..Len(args.points[1])}

CameraPoint(i, j) == MatVec(args.Rt, args.points[i][j] \o <<One>>)

\* C2 as stated: wherever the z component of Rt.(p,1) is below 1e-7 the
\* projection is exactly (0, 0), for every K
C2_BehindCameraIsZero ==
    pc = "cam_projected" =>
        \A g \in GridCells :
            RLt(CameraPoint(g[1], g[2])[3], ProjEps) =>
                ret.proj[g[1]][g[2]] = <<Zero, Zero>>

\* C2 amended: wherever the z component of K.(Rt.(p,1)) is below 1e-7 the
\* projection is exactly (0, 0)
C2_SmallHomogeneousZIsZero ==
    pc = "cam_projected" =>
        \A g \in GridCells :
            RLt(MatVec(args.K, CameraPoint(g[1], g[2]))[3], ProjEps) =>
                ret.proj[g[1]][g[2]] = <<Zero, Zero>>

\* a point with 0 < z < 1e-7 and non-zero x, y has been projected to (0, 0)
\* beside a point that projects normally
C2_Witness ==
    /\ pc = "cam_projected"
    /\ Len(args.points[1]) = 2
    /\ LET loc == MatVec(args.K, CameraPoint(1, 1))
       IN  /\ RLt(Zero, loc[3])
           /\ RLt(loc[3], ProjEps)
           /\ loc[1] # Zero
    /\ ret.proj[1][1] = <<Zero, Zero>>
    /\ ret.proj[1][2] # <<Zero, Zero>>

CornerX(c) == IF c = 1 THEN Zero ELSE Rat(args.width)

CornerY(r) == IF r = 1 THEN Zero ELSE Rat(args.height)

IdentityExtrinsics == [i \in 1..3 |-> Identity3[i] \o <<Zero>>]

\* C6: with K = I and Rt = [I | 0], entry [r][c] is depth * (x_c, y_r, 1)
C6_IdentityCorners ==
    (/\ pc \in {"cam_unprojected", "cam_reprojected"}
     /\ args.K = Identity3
     /\ args.Rt = IdentityExtrinsics) =>
        /\ Len(ret.corners) = 2
        /\ \A r \in 1..2 :
            /\ Len(ret.corners[r]) = 2
            /\ \A c \in 1..2 :
                ret.corners[r][c] = <<RMul(args.depth, CornerX(c)),
                                      RMul(args.depth, CornerY(r)),
                                      args.depth>>
        /\ (args.depth = One /\ args.width = 2 /\ args.height = 2) =>
              ret.corners = <<<<<<Zero, Zero, One>>, <<Rat(2), Zero, One>>>>,
                              <<<<Zero, Rat(2), One>>, <<Rat(2), Rat(2), One>>>>>>

\* the corners of a camera wider than tall, at depth 2
C6_Witness ==
    /\ pc = "cam_unprojected"
    /\ args.K = Identity3
    /\ args.Rt = IdentityExtrinsics
    /\ args.depth = Rat(2)
    /\ args.width = 2
    /\ args.height = 1
    /\ ret.corners = <<<<<<Zero, Zero, Rat(2)>>, <<Rat(4), Zero, Rat(2)>>>>,
                       <<<<Zero, Rat(2), Rat(2)>>, <<Rat(4), Rat(2), Rat(2)>>>>>>

Orthonormal(R) == MatMul(Transpose(R), R) = Identity3

PSPixels == {<<y, x>> : y \in 1..Len(args.images[1]), x \in 1..Len(args.images[1][1])}

\* C3: at every pixel either the albedo norm before the final masking is
\* below 1e-7 and the output albedo and normal are both exactly zero, or the
\* output albedo is non-zero and the output normal is a unit vector
C3_AlbedoAndNormalAgree ==
    pc = "ps_done" =>
        \A p \in PSPixels :
            LET out == ret[p[1]][p[2]]
                pre == AlbedoUnmasked(args.lights, args.images, p[1], p[2])
            IN  IF RLt(SurdNormSq(pre), Rat(AlbedoEps * AlbedoEps))
                THEN IsZeroVec(out.albedo) /\ IsZeroVec(out.normals)
                ELSE ~IsZeroVec(out.albedo) /\ SurdNormSq(out.normals) = One

\* one result holds a pixel zeroed for a small but non-zero albedo and a
\* pixel with a non-zero albedo and a unit normal
C3_Witness ==
    /\ pc = "ps_done"
    /\ \E p \in PSPixels :
        /\ ~IsZeroVec(AlbedoUnmasked(args.lights, args.images, p[1], p[2]))
        /\ IsZeroVec(ret[p[1]][p[2]].albedo)
        /\ IsZeroVec(ret[p[1]][p[2]].normals)
    /\ \E p \in PSPixels :
        /\ ~IsZeroVec(ret[p[1]][p[2]].albedo)
        /\ SurdNormSq(ret[p[1]][p[2]].normals) = One

====
